---- MODULE Spec2Model ----
(***************************************************************************)
(* A model of the DailyPe record service (src/app.py): the Manager and     *)
(* User tables and the handlers create_manager, create_user, get_users,    *)
(* delete_user, update_user, wipe_database and get_inactive_users.         *)
(*                                                                         *)
(* Spec     : the handlers run one at a time, each to completion.          *)
(* ConcSpec : create_user requests run concurrently; each is split where   *)
(*            the code reads the store and where it commits.               *)
(***************************************************************************)
EXTENDS Integers, Sequences, FiniteSets, TLC

VARIABLES users, managers, nextUserId, nextManagerId, resp, reqs, raced

vars == <<users, managers, nextUserId, nextManagerId, resp, reqs, raced>>

(***************************************************************************)
(* Bounds of the model.                                                    *)
(***************************************************************************)
\* how many User rows are ever inserted (uuid4 values are never reused)
MaxRows == 3
\* how many Manager rows are ever inserted
MaxManagers == 2
\* the longest user_ids list of an update_user request
MaxBatch == 2

(***************************************************************************)
(* Values.  Python's None is 0 for ids and timestamps (uuid4 values and    *)
(* clock readings start at 1) and the string Absent for a JSON field that  *)
(* is missing from the request body.                                       *)
(***************************************************************************)
None == 0
Absent == "<absent>"

\* Python truthiness of an optional string: `if s` / `not s`
Truthy(s) == s # Absent /\ s # ""

\* the i-th character of a string, as a string of length 1
Char(s, i) == SubSeq(s, i, i)

Digits == "0123456789"
LowerCase == "abcdefghijklmnopqrstuvwxyz"
UpperCase == "ABCDEFGHIJKLMNOPQRSTUVWXYZ"

IsDigit(c) == \E i \in 1..10 : Char(Digits, i) = c
IsUpper(c) == \E i \in 1..26 : Char(UpperCase, i) = c
IsLower(c) == \E i \in 1..26 : Char(LowerCase, i) = c
\* the regex class \w (ASCII part)
IsWord(c) == IsDigit(c) \/ IsUpper(c) \/ IsLower(c) \/ c = "_"
\* the regex class [\w\.-]
IsEmailChar(c) == IsWord(c) \/ c = "." \/ c = "-"

StartsWith(s, p) == Len(s) >= Len(p) /\ SubSeq(s, 1, Len(p)) = p

\* str.upper()
UpperChar(c) ==
    IF IsLower(c)
    THEN Char(UpperCase, CHOOSE i \in 1..26 : Char(LowerCase, i) = c)
    ELSE c

RECURSIVE Upper(_)
Upper(s) ==
    IF Len(s) = 0 THEN ""
    ELSE UpperChar(Char(s, 1)) \o Upper(SubSeq(s, 2, Len(s)))

\* `$` of a Python regex matches at the end and before one trailing newline
DollarCuts(s) ==
    {s} \cup (IF Len(s) > 0 /\ Char(s, Len(s)) = "\n"
              THEN {SubSeq(s, 1, Len(s) - 1)} ELSE {})

\* re.match(r'^(\+91|0)?[6-9]\d{9}$', s)
MatchMob(s) ==
    \E t \in DollarCuts(s) : \E p \in {"", "+91", "0"} :
        /\ StartsWith(t, p)
        /\ Len(t) = Len(p) + 10
        /\ Char(t, Len(p) + 1) \in {"6", "7", "8", "9"}
        /\ \A i \in (Len(p) + 2)..Len(t) : IsDigit(Char(t, i))

\* re.sub(r'^(\+91|0)', '', s)
StripPrefix(s) ==
    IF StartsWith(s, "+91") THEN SubSeq(s, 4, Len(s))
    ELSE IF StartsWith(s, "0") THEN SubSeq(s, 2, Len(s))
    ELSE s

\* re.match(r'^[A-Z]{5}[0-9]{4}[A-Z]$', s)
MatchPan(s) ==
    \E t \in DollarCuts(s) :
        /\ Len(t) = 10
        /\ \A i \in 1..5 : IsUpper(Char(t, i))
        /\ \A i \in 6..9 : IsDigit(Char(t, i))
        /\ IsUpper(Char(t, 10))

\* re.match(r'^[\w\.-]+@[\w\.-]+\.\w+$', s)
MatchEmail(s) ==
    \E t \in DollarCuts(s) : \E a \in 2..Len(t) : \E d \in (a + 2)..(Len(t) - 1) :
        /\ Char(t, a) = "@"
        /\ Char(t, d) = "."
        /\ \A i \in 1..(a - 1) : IsEmailChar(Char(t, i))
        /\ \A i \in (a + 1)..(d - 1) : IsEmailChar(Char(t, i))
        /\ \A i \in (d + 1)..Len(t) : IsWord(Char(t, i))

\* the value of a decimal digit
DigitVal(c) == (CHOOSE i \in 1..10 : Char(Digits, i) = c) - 1

\* str(id): an id is rendered in decimal
RECURSIVE IdStr(_)
IdStr(n) ==
    IF n < 10 THEN Char(Digits, n + 1)
    ELSE IdStr(n \div 10) \o Char(Digits, (n % 10) + 1)

RECURSIVE NumeralVal(_)
NumeralVal(s) ==
    IF Len(s) = 0 THEN 0
    ELSE 10 * NumeralVal(SubSeq(s, 1, Len(s) - 1)) + DigitVal(Char(s, Len(s)))

\* uuid.UUID(s): the id s denotes, or None when s has not the format (ValueError)
ParseUUID(s) ==
    IF /\ Len(s) > 0
       /\ \A i \in 1..Len(s) : IsDigit(Char(s, i))
       /\ Char(s, 1) # "0"
    THEN NumeralVal(s)
    ELSE None

(***************************************************************************)
(* The strings the requests of the model carry, and the conversions of     *)
(* each, tabulated once.                                                   *)
(***************************************************************************)
FullNameInputs == {"", "Asha"}
MobNumInputs == {"+919876543210", "9876543210", "07000000001", "5876543210"}
PanNumInputs == {"abcde1234f", "PQRST5678U", "ABCDE12345"}
EmailInputs == {"a@x.io", "b-c@x.io", "not-an-email"}
\* update_data = {"manager_id": v}: v null, empty, malformed, or an id's string
ManagerIdStrInputs ==
    {Absent, "", "not-a-uuid"} \cup {IdStr(m) : m \in 1..(MaxManagers + 1)}

MobMatches[s \in MobNumInputs] == MatchMob(s)
MobStripped[s \in MobNumInputs] == StripPrefix(s)
PanUpper[s \in PanNumInputs] == Upper(s)
PanMatches[s \in PanNumInputs] == MatchPan(Upper(s))
EmailMatches[s \in EmailInputs] == MatchEmail(s)
UUIDParsed[s \in ManagerIdStrInputs \ {Absent, ""}] == ParseUUID(s)

(***************************************************************************)
(* The tables.                                                             *)
(***************************************************************************)
\* Manager(full_name=..., email=...) with the column defaults
NewManagerRow(id, full_name, email) ==
    [id |-> id, full_name |-> full_name, email |-> email, is_active |-> TRUE]

\* User(...) with the column defaults: updated_at null, is_active true
NewUserRow(id, full_name, mob_num, pan_num, manager_id, created_at) ==
    [id |-> id, full_name |-> full_name, mob_num |-> mob_num,
     pan_num |-> pan_num, manager_id |-> manager_id,
     created_at |-> created_at, updated_at |-> None, is_active |-> TRUE]

\* the dict get_users and get_inactive_users build for one row
Serialize(user) ==
    [user_id |-> IdStr(user.id),
     manager_id |-> IF user.manager_id # None THEN IdStr(user.manager_id) ELSE Absent,
     full_name |-> user.full_name,
     mob_num |-> user.mob_num,
     pan_num |-> user.pan_num,
     created_at |-> IdStr(user.created_at),
     updated_at |-> IF user.updated_at # None THEN IdStr(user.updated_at) ELSE Absent,
     is_active |-> user.is_active]

\* what a handler returns: the tables it leaves committed, and its response
Outcome(us, ms, nu, nm, status, message, body) ==
    [users |-> us, managers |-> ms, nextUserId |-> nu, nextManagerId |-> nm,
     status |-> status, message |-> message, body |-> body]

\* a response that commits nothing
Reply(status, message) ==
    Outcome(users, managers, nextUserId, nextManagerId, status, message, {})

\* datetime.datetime.utcnow(): the code stores and copies clock readings and
\* never compares them; the model's clock ticks with every row inserted
UtcNow(nu) == nu

(***************************************************************************)
(* create_manager                                                          *)
(***************************************************************************)
create_manager(data) ==
    IF ~Truthy(data.full_name)
    THEN Reply(400, "Full name is required")
    ELSE IF ~Truthy(data.email) \/ ~EmailMatches[data.email]
    THEN Reply(400, "Invalid email address")
    ELSE IF \E m \in managers : m.email = data.email
    THEN Reply(400, "Manager with the same email already exists")
    ELSE Outcome(users,
                 managers \cup {NewManagerRow(nextManagerId, data.full_name, data.email)},
                 nextUserId, nextManagerId + 1, 201, IdStr(nextManagerId), {})

(***************************************************************************)
(* create_user                                                             *)
(***************************************************************************)
\* data.get('pan_num', '').upper()
PanOf(data) == IF data.pan_num = Absent THEN "" ELSE PanUpper[data.pan_num]

\* Manager.query.get(manager_id)
ManagerGet(ms, manager_id) == {m \in ms : m.id = manager_id}

\* User.query.filter_by(mob_num=re.sub(r'^(\+91|0)', '', mob_num))
ExistingUserByMobNum(us, mob_num) == {u \in us : u.mob_num = MobStripped[mob_num]}

\* User.query.filter_by(pan_num=pan_num)
ExistingUserByPanNum(us, pan_num) == {u \in us : u.pan_num = pan_num}

\* the validations of the request body, in the handler's order: the message of
\* the first one that fails, "" when all pass
CreateUserValidate(data, ms) ==
    IF ~Truthy(data.full_name) THEN "Full name is required"
    ELSE IF ~Truthy(data.mob_num) \/ ~MobMatches[data.mob_num] THEN "Invalid mobile number"
    ELSE IF data.pan_num = Absent \/ ~PanMatches[data.pan_num] THEN "Invalid PAN number"
    ELSE IF data.manager_id # None /\ ManagerGet(ms, data.manager_id) = {}
    THEN "Invalid manager ID"
    ELSE ""

\* existing_user_by_mob_num
CheckMobNum(data, us) ==
    IF ExistingUserByMobNum(us, data.mob_num) # {}
    THEN "User with the same mobile number already exists"
    ELSE ""

\* existing_user_by_pan_num
CheckPanNum(data, us) ==
    IF ExistingUserByPanNum(us, PanOf(data)) # {}
    THEN "User with the same PAN number already exists"
    ELSE ""

\* everything create_user checks before it inserts
CreateUserChecks(data, us, ms) ==
    IF CreateUserValidate(data, ms) # "" THEN CreateUserValidate(data, ms)
    ELSE IF CheckMobNum(data, us) # "" THEN CheckMobNum(data, us)
    ELSE CheckPanNum(data, us)

\* new_user = User(...); new_user.manager_id = manager_id; created_at defaults to now
CreateUserRow(data, id, t) ==
    NewUserRow(id, data.full_name, MobStripped[data.mob_num], PanOf(data),
               data.manager_id, t)

\* (mutant) the insert is refused when a row carries the same mob_num or pan_num
InsertUserUnique(us, row) ==
    IF \E u \in us : u.mob_num = row.mob_num \/ u.pan_num = row.pan_num
    THEN us
    ELSE us \cup {row}

\* db.session.add(new_user); db.session.commit(): the table has no unique
\* constraint on mob_num or pan_num, the insert always succeeds
InsertUser(us, row) == us \cup {row}

create_user(data) ==
    LET failed == CreateUserChecks(data, users, managers) IN
    IF failed # ""
    THEN Reply(400, failed)
    ELSE Outcome(InsertUser(users, CreateUserRow(data, nextUserId, UtcNow(nextUserId))),
                 managers, nextUserId + 1, nextManagerId,
                 201, "User created successfully", {})

(***************************************************************************)
(* get_users, get_inactive_users                                           *)
(***************************************************************************)
\* the rows get_users selects; a filter that is None / empty is not applied
GetUsersQuery(us, user_id, mob_num, manager_id) ==
    {u \in us :
        /\ u.is_active
        /\ (user_id # None => u.id = user_id)
        /\ (Truthy(mob_num) => u.mob_num = mob_num)
        /\ (manager_id # None => u.manager_id = manager_id)}

\* user_list of get_users over the table us
GetUsersBody(us, data) ==
    {Serialize(u) : u \in GetUsersQuery(us, data.user_id, data.mob_num, data.manager_id)}

get_users(data) ==
    Outcome(users, managers, nextUserId, nextManagerId, 200, "",
            GetUsersBody(users, data))

\* the rows get_inactive_users selects
GetInactiveUsersQuery(us) == {u \in us : ~u.is_active}

\* user_list of get_inactive_users over the table us
GetInactiveUsersBody(us) == {Serialize(u) : u \in GetInactiveUsersQuery(us)}

get_inactive_users ==
    Outcome(users, managers, nextUserId, nextManagerId, 200, "",
            GetInactiveUsersBody(users))

(***************************************************************************)
(* delete_user                                                             *)
(***************************************************************************)
\* (mutant) the lookup is not restricted to the active rows
DeleteLookupAnyRow(us, user_id, mob_num) ==
    IF user_id # None
    THEN {u \in us : u.id = user_id}
    ELSE {u \in us : u.mob_num = mob_num}

\* the rows the lookup may return with .first(): by id when user_id is given,
\* by mob_num otherwise, among the active rows
DeleteLookup(us, user_id, mob_num) ==
    IF user_id # None
    THEN {u \in us : u.id = user_id /\ u.is_active}
    ELSE {u \in us : u.mob_num = mob_num /\ u.is_active}

\* (mutant) a soft delete: the row is kept and marked inactive
DeleteRowSoft(us, user) == (us \ {user}) \cup {[user EXCEPT !.is_active = FALSE]}

\* db.session.delete(user); db.session.commit()
DeleteRow(us, user) == us \ {user}

\* user is the row .first() returned, a member of DeleteLookup, when there is one
delete_user(data, user) ==
    IF data.user_id = None /\ ~Truthy(data.mob_num)
    THEN Reply(400, "Either user_id or mob_num is required")
    ELSE IF DeleteLookup(users, data.user_id, data.mob_num) = {}
    THEN Reply(404, "User not found")
    ELSE Outcome(DeleteRow(users, user), managers, nextUserId, nextManagerId,
                 200, "User deleted successfully", {})

(***************************************************************************)
(* wipe_database                                                           *)
(***************************************************************************)
wipe_database ==
    Outcome({}, {}, nextUserId, nextManagerId, 200,
            "Database wiped and recreated successfully", {})

(***************************************************************************)
(* update_user                                                             *)
(***************************************************************************)
Range(seq) == {seq[i] : i \in 1..Len(seq)}

\* (mutant) the query is not restricted to the active rows
UsersToUpdateAnyRow(us, user_ids) == {u \in us : u.id \in Range(user_ids)}

\* User.query.filter(User.id.in_(user_ids), User.is_active == True).all()
UsersToUpdate(us, user_ids) == {u \in us : u.id \in Range(user_ids) /\ u.is_active}

\* Manager.query.filter_by(id=manager_id, is_active=True).first()
ActiveManager(ms, manager_id) == {m \in ms : m.id = manager_id /\ m.is_active}

\* (mutant) the superseded row is left active
SupersedeStaysActive(session, user, manager_id, newId) ==
    session \cup {NewUserRow(newId, user.full_name, user.mob_num, user.pan_num,
                             manager_id, user.created_at)}

\* (mutant) the new row takes the creation default instead of the old created_at
SupersedeStampsNew(session, user, manager_id, newId) ==
    (session \ {user})
        \cup {[user EXCEPT !.is_active = FALSE],
              NewUserRow(newId, user.full_name, user.mob_num, user.pan_num,
                         manager_id, UtcNow(newId))}

\* a user that has a manager is reassigned: the row is marked inactive and a
\* new row carrying the same name, numbers and created_at is added
Supersede(session, user, manager_id, newId) ==
    (session \ {user})
        \cup {[user EXCEPT !.is_active = FALSE],
              NewUserRow(newId, user.full_name, user.mob_num, user.pan_num,
                         manager_id, user.created_at)}

\* (mutant) the in-place change leaves updated_at unset
AssignInPlaceNoStamp(session, user, manager_id, t) ==
    (session \ {user}) \cup {[user EXCEPT !.manager_id = manager_id]}

\* a user that has no manager is changed in place
AssignInPlace(session, user, manager_id, t) ==
    (session \ {user})
        \cup {[user EXCEPT !.manager_id = manager_id, !.updated_at = t]}

\* the message of the same-manager conflict
AlreadyMessage(manager_id_str, user) ==
    "Manager ID is already '" \o manager_id_str \o "' for user " \o IdStr(user.id)

\* one iteration of `for user in users_to_update`; st holds the session's rows,
\* the next fresh id and the message the handler returned with ("" while the
\* loop is still running)
UpdateOne(st, user, manager_id_str, manager_id) ==
    IF ~Truthy(manager_id_str) THEN st
    ELSE IF user.manager_id = manager_id
    THEN [st EXCEPT !.returned = AlreadyMessage(manager_id_str, user)]
    ELSE IF user.manager_id # None
    THEN [st EXCEPT !.session = Supersede(st.session, user, manager_id, st.nextUserId),
                    !.nextUserId = st.nextUserId + 1]
    ELSE [st EXCEPT !.session = AssignInPlace(st.session, user, manager_id,
                                              UtcNow(st.nextUserId))]

\* the loop over users_to_update, in the order the query returned them
RECURSIVE UpdateLoop(_, _, _, _, _)
UpdateLoop(st, order, i, manager_id_str, manager_id) ==
    IF i > Len(order) \/ st.returned # "" THEN st
    ELSE UpdateLoop(UpdateOne(st, order[i], manager_id_str, manager_id),
                    order, i + 1, manager_id_str, manager_id)

\* (mutant) the staged changes are flushed and committed on the way out
TeardownCommits(committed, staged) == staged

\* the handler returns without db.session.commit(): the session is discarded
\* when the request ends and the tables stay as committed
Teardown(committed, staged) == committed

\* the orders in which the query may return the rows
Orders(rows) ==
    {o \in [1..Cardinality(rows) -> rows] : \A i, j \in DOMAIN o : i # j => o[i] # o[j]}

\* manager_id = uuid.UUID(manager_id_str) when manager_id_str is given, else None
TargetManager(data) ==
    IF Truthy(data.update_data.manager_id)
    THEN UUIDParsed[data.update_data.manager_id]
    ELSE None

\* the validations of the request body and of the target manager, in the
\* handler's order: the message of the first one that fails, "" when all pass
UpdateUserValidate(data, ms) ==
    IF data.user_ids_kind # "list" \/ Len(data.user_ids) = 0
    THEN "user_ids is required and must be a list"
    ELSE IF data.update_data.kind # "dict" \/ data.update_data.keys = {}
    THEN "update_data is required and must be an object"
    ELSE IF data.update_data.keys \ {"manager_id"} # {}
    THEN "Cannot update keys in bulk"
    ELSE IF Truthy(data.update_data.manager_id) /\ TargetManager(data) = None
    THEN "Invalid manager ID format"
    ELSE IF /\ Truthy(data.update_data.manager_id)
            /\ ActiveManager(ms, TargetManager(data)) = {}
    THEN "Invalid manager ID"
    ELSE ""

\* the session after the loop over users_to_update in the given order
LoopResult(data, order) ==
    UpdateLoop([session |-> users, nextUserId |-> nextUserId, returned |-> ""],
               order, 1, data.update_data.manager_id, TargetManager(data))

\* order is the list users_to_update as the query returned it, one of
\* Orders(UsersToUpdate(users, data.user_ids))
update_user(data, order) ==
    LET st == LoopResult(data, order) IN
    IF UpdateUserValidate(data, managers) # ""
    THEN Reply(400, UpdateUserValidate(data, managers))
    ELSE IF Cardinality(UsersToUpdate(users, data.user_ids)) # Len(data.user_ids)
    THEN Reply(404, "One or more user IDs not found")
    ELSE IF st.returned # ""
    THEN Outcome(Teardown(users, st.session), managers, nextUserId, nextManagerId,
                 400, st.returned, {})
    ELSE Outcome(st.session, managers, st.nextUserId, nextManagerId,
                 200, "Users updated successfully", {})

(***************************************************************************)
(* The requests of the model.                                              *)
(***************************************************************************)
UserIdInputs == {None} \cup (1..MaxRows)
ManagerIdInputs == {None} \cup (1..MaxManagers)

CreateManagerInputs == [full_name : {"", "Meera"}, email : EmailInputs]

CreateUserInputs ==
    [full_name : FullNameInputs, mob_num : MobNumInputs, pan_num : PanNumInputs,
     manager_id : ManagerIdInputs]

GetUsersInputs ==
    [user_id : UserIdInputs, mob_num : {Absent, "9876543210"},
     manager_id : ManagerIdInputs]

DeleteUserInputs ==
    [user_id : UserIdInputs,
     mob_num : {Absent, "+919876543210", "9876543210", "7000000001"}]

\* the handler reads user_ids through len() and IN only: the lists of the model
\* are the sorted ones, repeated ids included
UserIdLists ==
    {l \in UNION {[1..n -> 1..MaxRows] : n \in 0..MaxBatch} :
        \A i \in 1..(Len(l) - 1) : l[i] <= l[i + 1]}

UpdateDataInputs ==
    [kind : {"dict"}, keys : {{"manager_id"}}, manager_id : ManagerIdStrInputs]

\* update_data missing, not an object, empty, or with keys other than manager_id
MalformedUpdateData ==
    {[kind |-> "absent", keys |-> {}, manager_id |-> Absent],
     [kind |-> "list", keys |-> {}, manager_id |-> Absent],
     [kind |-> "dict", keys |-> {}, manager_id |-> Absent],
     [kind |-> "dict", keys |-> {"manager_id", "full_name"}, manager_id |-> IdStr(1)]}

UpdateUserInputs ==
    [user_ids_kind : {"list"}, user_ids : UserIdLists, update_data : UpdateDataInputs]
        \cup [user_ids_kind : {"list"}, user_ids : {<<1>>},
              update_data : MalformedUpdateData]
        \cup [user_ids_kind : {"absent", "string"}, user_ids : {<<>>},
              update_data : {[kind |-> "dict", keys |-> {"manager_id"},
                              manager_id |-> IdStr(1)]}]

(***************************************************************************)
(* The handlers run one at a time.                                         *)
(***************************************************************************)
NoResponse == [op |-> "", status |-> 0]

\* how many create_user requests run concurrently
NumRequests == 2

Requests == 1..NumRequests

\* the create_user requests ConcSpec runs
ConcCreateInputs ==
    [full_name : {"Asha"}, mob_num : {"+919876543210", "9876543210", "5876543210"},
     pan_num : {"abcde1234f", "PQRST5678U"}, manager_id : {None}]

\* a request that has not arrived yet
IdleRequest ==
    [pc |-> "idle", status |-> 0,
     data |-> [full_name |-> "", mob_num |-> "", pan_num |-> "", manager_id |-> None]]

Init ==
    /\ users = {}
    /\ managers = {}
    /\ nextUserId = 1
    /\ nextManagerId = 1
    /\ resp = NoResponse
    /\ reqs = [r \in Requests |-> IdleRequest]
    /\ raced = {}

\* the handler op ran and left outcome r
Handled(op, r) ==
    /\ r.nextUserId <= MaxRows + 1
    /\ r.nextManagerId <= MaxManagers + 1
    /\ users' = r.users
    /\ managers' = r.managers
    /\ nextUserId' = r.nextUserId
    /\ nextManagerId' = r.nextManagerId
    /\ resp' = [op |-> op, status |-> r.status]
    /\ UNCHANGED <<reqs, raced>>

CreateManager == \E data \in CreateManagerInputs : Handled("create_manager", create_manager(data))

CreateUser == \E data \in CreateUserInputs : Handled("create_user", create_user(data))

GetUsers == \E data \in GetUsersInputs : Handled("get_users", get_users(data))

GetInactiveUsers == Handled("get_inactive_users", get_inactive_users)

DeleteUser ==
    \E data \in DeleteUserInputs :
        \E user \in (IF DeleteLookup(users, data.user_id, data.mob_num) = {}
                     THEN {NewUserRow(None, "", "", "", None, None)}
                     ELSE DeleteLookup(users, data.user_id, data.mob_num)) :
            Handled("delete_user", delete_user(data, user))

\* what update_user may leave for one request: the query returns the rows in
\* an order of the store's choosing
UpdateOutcomes(data) ==
    {update_user(data, order) : order \in Orders(UsersToUpdate(users, data.user_ids))}

UpdateUser ==
    \E data \in UpdateUserInputs :
        \E r \in UpdateOutcomes(data) : Handled("update_user", r)

WipeDatabase == Handled("wipe_database", wipe_database)

Next ==
    \/ CreateManager
    \/ CreateUser
    \/ GetUsers
    \/ GetInactiveUsers
    \/ DeleteUser
    \/ UpdateUser
    \/ WipeDatabase

Spec == Init /\ [][Next]_vars

(***************************************************************************)
(* create_user requests running concurrently.  Each request is a thread of *)
(* its own with a session of its own; it reads the committed tables where  *)
(* the handler queries (READ COMMITTED) and writes them where it commits.  *)
(***************************************************************************)
\* request r moves to pc with the given status
Moved(r, pc, status) == reqs' = [reqs EXCEPT ![r].pc = pc, ![r].status = status]

\* the request arrives: data = request.get_json() and the validations
Begin(r) ==
    /\ reqs[r].pc = "idle"
    /\ \E data \in ConcCreateInputs :
        reqs' = [reqs EXCEPT ![r] =
                    IF CreateUserValidate(data, managers) # ""
                    THEN [pc |-> "done", status |-> 400, data |-> data]
                    ELSE [pc |-> "validated", status |-> 0, data |-> data]]
    /\ UNCHANGED <<users, managers, nextUserId, nextManagerId, resp, raced>>

\* the query for a user with the same mob_num
CheckMob(r) ==
    /\ reqs[r].pc = "validated"
    /\ IF CheckMobNum(reqs[r].data, users) # ""
       THEN Moved(r, "done", 400)
       ELSE Moved(r, "mob_checked", 0)
    /\ UNCHANGED <<users, managers, nextUserId, nextManagerId, resp, raced>>

\* the query for a user with the same pan_num; raced records the requests that
\* have passed both queries while r passes them and have not committed yet
CheckPan(r) ==
    /\ reqs[r].pc = "mob_checked"
    /\ IF CheckPanNum(reqs[r].data, users) # ""
       THEN Moved(r, "done", 400) /\ UNCHANGED raced
       ELSE /\ Moved(r, "checked", 0)
            /\ raced' = raced \cup {{r, q} : q \in {q \in Requests \ {r} :
                                                      reqs[q].pc = "checked"}}
    /\ UNCHANGED <<users, managers, nextUserId, nextManagerId, resp>>

\* db.session.add(new_user); db.session.commit(); return 201
Commit(r) ==
    /\ reqs[r].pc = "checked"
    /\ nextUserId <= MaxRows
    /\ users' = InsertUser(users, CreateUserRow(reqs[r].data, nextUserId,
                                                UtcNow(nextUserId)))
    /\ nextUserId' = nextUserId + 1
    /\ Moved(r, "done", 201)
    /\ UNCHANGED <<managers, nextManagerId, resp, raced>>

ConcNext == \E r \in Requests : Begin(r) \/ CheckMob(r) \/ CheckPan(r) \/ Commit(r)

ConcSpec == Init /\ [][ConcNext]_vars

(***************************************************************************)
(* The claims.                                                             *)
(***************************************************************************)
Ids(us) == {u.id : u \in us}

\* the active rows of us whose id is an entry of the list ids
Listed(us, ids) == {u \in us : u.is_active /\ \E i \in 1..Len(ids) : ids[i] = u.id}

\* every entry of the list ids is the id of an active row
AllResolve(us, ids) == \A i \in 1..Len(ids) : \E u \in us : u.is_active /\ u.id = ids[i]

\* the last handler that ran, and its status
Responded(op, status) == resp.op = op /\ resp.status = status

\* C1: after any sequence of handlers run one at a time, no two distinct active
\* User rows share a mob_num and no two distinct active User rows share a
\* pan_num.
C1_UniqueAmongActive ==
    \A u, v \in users :
        (u.is_active /\ v.is_active /\ u.id # v.id)
            => (u.mob_num # v.mob_num /\ u.pan_num # v.pan_num)

\* two active users, one of them the successor of an inactive row with the
\* same numbers
C1_Witness ==
    /\ Responded("update_user", 200)
    /\ \E u, v, w \in users :
        /\ u.is_active /\ v.is_active /\ u.id # v.id
        /\ ~w.is_active /\ w.mob_num = u.mob_num /\ w.pan_num = u.pan_num

\* C2: when update_user succeeds for an active user of manager M1 with target
\* M2 # M1, the original row keeps its id and manager_id = M1 and becomes
\* inactive; exactly one new active row is inserted, with a fresh id, the same
\* full_name, mob_num, pan_num and created_at, manager_id = M2 and updated_at
\* unset; get_inactive_users then returns the original row and get_users does
\* not.
C2_ReassignSupersedes ==
    \A data \in UpdateUserInputs : \A r \in UpdateOutcomes(data) :
        (r.status = 200 /\ Truthy(data.update_data.manager_id)) =>
            \A u \in Listed(users, data.user_ids) :
                (u.manager_id # None /\ u.manager_id # TargetManager(data)) =>
                    LET old == [u EXCEPT !.is_active = FALSE]
                        new == {n \in r.users : n.id \notin Ids(users)
                                                  /\ n.mob_num = u.mob_num}
                    IN  /\ {n \in r.users : n.id = u.id} = {old}
                        /\ Cardinality(new) = 1
                        /\ \A n \in new :
                            /\ n.id >= nextUserId
                            /\ n.is_active
                            /\ n.full_name = u.full_name
                            /\ n.pan_num = u.pan_num
                            /\ n.created_at = u.created_at
                            /\ n.manager_id = TargetManager(data)
                            /\ n.updated_at = None
                        /\ Serialize(old) \in GetInactiveUsersBody(r.users)
                        /\ \A g \in GetUsersInputs : \A row \in GetUsersBody(r.users, g) :
                            row.user_id # IdStr(u.id)

\* a reassignment has happened: an inactive row and its active successor
C2_Witness ==
    /\ Responded("update_user", 200)
    /\ \E old, new \in users :
        /\ ~old.is_active /\ new.is_active /\ new.id > old.id
        /\ old.manager_id # None /\ new.manager_id # None
        /\ new.manager_id # old.manager_id
        /\ new.mob_num = old.mob_num /\ new.created_at = old.created_at
        /\ new.updated_at = None

C4_NullTargetTransition ==
    \A data \in UpdateUserInputs : \A r \in UpdateOutcomes(data) :
        (/\ UpdateUserValidate(data, managers) = ""
         /\ ~Truthy(data.update_data.manager_id)
         /\ Cardinality(Listed(users, data.user_ids)) = Len(data.user_ids))
        => IF \E u \in Listed(users, data.user_ids) : u.manager_id = None
           THEN r.status = 400 /\ r.users = users
           ELSE /\ r.status = 200
                /\ \A u \in Listed(users, data.user_ids) :
                    /\ [u EXCEPT !.is_active = FALSE] \in r.users
                    /\ \E n \in r.users : /\ n.is_active
                                          /\ n.mob_num = u.mob_num
                                          /\ n.manager_id = None

\* C5: create_user's duplicate checks are scoped to the active users: with
\* otherwise valid input it fails with a conflict exactly when some active user
\* has the normalized mob_num or the uppercased pan_num; an inactive row that
\* carries them causes no conflict.
C5_DuplicateCheckScopedToActive ==
    \A data \in CreateUserInputs :
        CreateUserValidate(data, managers) = "" =>
            (create_user(data).status = 400
                <=> \E u \in users : /\ u.is_active
                                      /\ \/ u.mob_num = StripPrefix(data.mob_num)
                                         \/ u.pan_num = Upper(data.pan_num))

\* C6: once a User row is inactive no handler but wipe_database changes it: it
\* is in the table, with every field as it was, after every later step.
C6_InactiveRowsFrozen ==
    [][resp'.op # "wipe_database" => \A u \in users : ~u.is_active => u \in users']_vars

\* a delete_user has succeeded while the table holds an inactive row
C6_Witness ==
    /\ Responded("delete_user", 200)
    /\ \E u \in users : ~u.is_active

\* C7: when update_user succeeds for an active user with no manager and target
\* M1, the row is changed in place: the same id stays active with manager_id =
\* M1 and updated_at set, no new row is inserted and no row becomes inactive.
C7_FirstAssignmentInPlace ==
    \A data \in UpdateUserInputs : \A r \in UpdateOutcomes(data) :
        (r.status = 200 /\ Truthy(data.update_data.manager_id)) =>
            /\ \A u \in Listed(users, data.user_ids) :
                u.manager_id = None =>
                    /\ Cardinality({n \in r.users : n.id = u.id}) = 1
                    /\ \A n \in {n \in r.users : n.id = u.id} :
                        /\ n.is_active
                        /\ n.manager_id = TargetManager(data)
                        /\ n.updated_at # None
                        /\ [n EXCEPT !.manager_id = None, !.updated_at = u.updated_at] = u
                    /\ {n.id : n \in {n \in r.users : n.mob_num = u.mob_num}}
                         = {n.id : n \in {n \in users : n.mob_num = u.mob_num}}
            /\ (\A u \in Listed(users, data.user_ids) : u.manager_id = None) =>
                    /\ Ids(r.users) = Ids(users)
                    /\ {n \in r.users : ~n.is_active} = {n \in users : ~n.is_active}
                    /\ r.nextUserId = nextUserId

\* a first assignment has happened: an active row with a manager and
\* updated_at set, and no other row carrying its mob_num
C7_Witness ==
    /\ Responded("update_user", 200)
    /\ \E u \in users :
        /\ u.is_active /\ u.manager_id # None /\ u.updated_at # None
        /\ \A v \in users : v.mob_num = u.mob_num => v.id = u.id

\* C8: a successful delete_user removes the row entirely and its id is returned
\* by neither get_users nor get_inactive_users in any later state; in every
\* state get_users returns only active rows, and an inactive row is returned by
\* get_inactive_users and by no get_users.
C8_DeletedNeverReturned ==
    /\ [](/\ \A g \in GetUsersInputs : \A row \in GetUsersBody(users, g) :
               /\ row.is_active
               /\ \E u \in users : u.is_active /\ row = Serialize(u)
          /\ \A row \in GetInactiveUsersBody(users) :
               \E u \in users : ~u.is_active /\ row = Serialize(u)
          /\ \A u \in users : ~u.is_active =>
               /\ Serialize(u) \in GetInactiveUsersBody(users)
               /\ \A g \in GetUsersInputs : \A row \in GetUsersBody(users, g) :
                    row.user_id # IdStr(u.id))
    /\ [][/\ (resp'.op = "delete_user" /\ resp'.status = 200) =>
                \E u \in users : u.is_active /\ u.id \notin Ids(users')
           /\ \A id \in 1..(nextUserId - 1) :
                id \notin Ids(users) =>
                    /\ id \notin Ids(users')
                    /\ \A g \in GetUsersInputs : \A row \in GetUsersBody(users', g) :
                         row.user_id # IdStr(id)
                    /\ \A row \in GetInactiveUsersBody(users') : row.user_id # IdStr(id)
         ]_vars

\* a delete_user has succeeded: an id that was given out is gone, while the
\* table holds an inactive row
C8_Witness ==
    /\ Responded("delete_user", 200)
    /\ \E id \in 1..(nextUserId - 1) : id \notin Ids(users)
    /\ \E u \in users : ~u.is_active
    /\ \E u \in users : u.is_active

\* C9: update_user fails with 404, changing no stored row, whenever fewer
\* active users have their id in user_ids than user_ids has entries (a listed
\* id missing or of an inactive row); it goes on to the per-user transitions
\* only when every listed id resolves to an active user.  (The request has
\* passed the validations that precede the query.)
C9_UnresolvedIdsNotFound ==
    \A data \in UpdateUserInputs : \A r \in UpdateOutcomes(data) :
        UpdateUserValidate(data, managers) = "" =>
            /\ Cardinality(Listed(users, data.user_ids)) < Len(data.user_ids)
                 => (r.status = 404 /\ r.users = users /\ r.managers = managers)
            /\ ~AllResolve(users, data.user_ids) => r.status = 404
            /\ r.status # 404 => AllResolve(users, data.user_ids)

\* an update_user has failed with 404 in a state where a request with a valid
\* target lists the id of an inactive row
C9_Witness ==
    /\ Responded("update_user", 404)
    /\ \E data \in UpdateUserInputs :
        /\ UpdateUserValidate(data, managers) = ""
        /\ Truthy(data.update_data.manager_id)
        /\ \E u \in users : ~u.is_active /\ u.id \in Range(data.user_ids)

\* C10: when two create_user requests with the same normalized mob_num (or
\* pan_num) interleave so that both have passed their existence checks before
\* either commits, both succeed and the table holds two active users with that
\* mob_num (or pan_num).
C10_RacingCreatesBothSucceed ==
    \A r1, r2 \in Requests :
        (/\ r1 # r2
         /\ {r1, r2} \in raced
         /\ reqs[r1].pc = "done"
         /\ reqs[r2].pc = "done")
        => /\ reqs[r1].status = 201
           /\ reqs[r2].status = 201
           /\ StripPrefix(reqs[r1].data.mob_num) = StripPrefix(reqs[r2].data.mob_num)
                => Cardinality({u \in users :
                        /\ u.is_active
                        /\ u.mob_num = StripPrefix(reqs[r1].data.mob_num)}) >= 2
           /\ Upper(reqs[r1].data.pan_num) = Upper(reqs[r2].data.pan_num)
                => Cardinality({u \in users :
                        /\ u.is_active
                        /\ u.pan_num = Upper(reqs[r1].data.pan_num)}) >= 2

\* two requests that raced on one mob_num are both done
C10_Witness ==
    \E r1, r2 \in Requests :
        /\ r1 # r2
        /\ {r1, r2} \in raced
        /\ reqs[r1].pc = "done" /\ reqs[r2].pc = "done"
        /\ reqs[r1].status = 201 /\ reqs[r2].status = 201
        /\ reqs[r1].data.mob_num # reqs[r2].data.mob_num
        /\ StripPrefix(reqs[r1].data.mob_num) = StripPrefix(reqs[r2].data.mob_num)
        /\ \E u, v \in users : u.id # v.id /\ u.is_active /\ v.is_active
                                /\ u.mob_num = v.mob_num

====
